---- MODULE Spec2Model ----
(***************************************************************************)
(* A model of the WhatsApp transcript parser in                            *)
(* src/parser/whatsapp_parser.py: clean_line, segment_messages,            *)
(* infer_date_format, parse_message_block and parse_chat.                  *)
(*                                                                         *)
(* Text is a sequence of tokens.  A token is either a run of decimal       *)
(* digits (its value n and its width w) or one other character / one       *)
(* colon-free, bracket-free, digit-free, space-free word.  Adjacent digits *)
(* always form one token, so the regular expressions of the source can be  *)
(* matched token by token.                                                 *)
(***************************************************************************)
EXTENDS Integers, Sequences, FiniteSets, TLC

\* ------------------------------------------------------------------------
\* Bounds of the model
\* ------------------------------------------------------------------------

\* The longest transcript (number of raw lines) that is fed to parse_chat.
MaxLines == 3

\* The longest list of blocks infer_date_format is called on directly, and the
\* largest small value of its parameter sample_size.
MaxBlocks == 3
MaxSample == 3

\* The longest raw line (number of characters) clean_line is called on directly.
MaxTokens == 3

\* The number of reruns of the Streamlit script that are followed.
MaxReruns == 3

\* ------------------------------------------------------------------------
\* Tokens
\* ------------------------------------------------------------------------

Tok(c) == [c |-> c, n |-> 0, w |-> 0]
Num(n, w) == [c |-> "0-9", n |-> n, w |-> w]

BOM == Tok("BOM")
LRM == Tok("LRM")
RLM == Tok("RLM")
LF == Tok("LF")
CR == Tok("CR")
SP == Tok("SP")

\* \d{lo,hi}
IsDigits(t, lo, hi) == t.c = "0-9" /\ t.w >= lo /\ t.w <= hi
\* \s
IsSpace(t) == t.c \in {"SP", "LF", "CR"}
\* [LRM RLM \s]
IsMarkOrSpace(t) == t.c \in {"LRM", "RLM"} \/ IsSpace(t)

\* Optional[x]: None is the empty sequence, a value x is <<x>>.
None == <<>>
Some(x) == <<x>>

\* ------------------------------------------------------------------------
\* clean_line
\* ------------------------------------------------------------------------

RECURSIVE rstrip_LF(_)
rstrip_LF(s) ==
    IF Len(s) > 0 /\ s[Len(s)] = LF
    THEN rstrip_LF(SubSeq(s, 1, Len(s) - 1))
    ELSE s

NotInvisible(t) == t.c \notin {"BOM", "LRM", "RLM"}

\* Mutant of clean_line: the newline is stripped before the marks are removed.
clean_line_stripfirst(line) == SelectSeq(rstrip_LF(line), NotInvisible)

\* The replacements of BOM, LRM and RLM, then rstrip("\n")
clean_line(line) == rstrip_LF(SelectSeq(line, NotInvisible))

\* ------------------------------------------------------------------------
\* Regular expressions
\* ------------------------------------------------------------------------

\* ^[LRM RLM \s]* : the index of the first token after the prefix
\* (Len(s) + 1 when the prefix is the whole text).
RECURSIVE SkipPrefix(_, _)
SkipPrefix(s, i) ==
    IF i <= Len(s) /\ IsMarkOrSpace(s[i]) THEN SkipPrefix(s, i + 1) ELSE i

\* MESSAGE_START.match(line) is not None
MESSAGE_START(line) ==
    LET p == SkipPrefix(line, 1)
    IN  p <= Len(line) /\ line[p] = Tok("[")

\* ([^:]+) : the index of the first colon at or after i (Len(s) + 1 if none).
RECURSIVE FirstColon(_, _)
FirstColon(s, i) ==
    IF i <= Len(s) /\ s[i] # Tok(":") THEN FirstColon(s, i + 1) ELSE i

NoMatch == [ok |-> FALSE, date |-> <<>>, hour |-> <<>>, sender |-> <<>>, message |-> <<>>]

\* \s([^:]+):\s(.*)$ starting at index i of s, re.DOTALL
SenderMessage(s, i, date, hour) ==
    LET c == FirstColon(s, i + 1)
    IN  IF /\ i <= Len(s) /\ IsSpace(s[i])
           /\ c > i + 1
           /\ c + 1 <= Len(s)
           /\ IsSpace(s[c + 1])
        THEN [ok |-> TRUE, date |-> date, hour |-> hour,
              sender |-> SubSeq(s, i + 1, c - 1),
              message |-> SubSeq(s, c + 2, Len(s))]
        ELSE NoMatch

\* FULL_PATTERN.match(block); groups: date = <<d1, d2, yy>>, hour = <<H, M, S>>
FULL_PATTERN(block) ==
    LET p == SkipPrefix(block, 1)
    IN  IF /\ p + 13 <= Len(block)
           /\ block[p] = Tok("[")
           /\ IsDigits(block[p + 1], 1, 2)
           /\ block[p + 2] = Tok("/")
           /\ IsDigits(block[p + 3], 1, 2)
           /\ block[p + 4] = Tok("/")
           /\ IsDigits(block[p + 5], 2, 2)
           /\ block[p + 6] = Tok(",")
           /\ IsSpace(block[p + 7])
           /\ IsDigits(block[p + 8], 1, 2)
           /\ block[p + 9] = Tok(":")
           /\ IsDigits(block[p + 10], 2, 2)
           /\ block[p + 11] = Tok(":")
           /\ IsDigits(block[p + 12], 2, 2)
           /\ block[p + 13] = Tok("]")
        THEN SenderMessage(block, p + 14,
                           <<block[p + 1], block[p + 3], block[p + 5]>>,
                           <<block[p + 8], block[p + 10], block[p + 12]>>)
        ELSE NoMatch

\* SHORT_PATTERN.match(block); groups: date = <<d1, d2>>, hour = <<H, M>>
SHORT_PATTERN(block) ==
    LET p == SkipPrefix(block, 1)
    IN  IF /\ p + 8 <= Len(block)
           /\ block[p] = Tok("[")
           /\ IsDigits(block[p + 1], 1, 2)
           /\ block[p + 2] = Tok("/")
           /\ IsDigits(block[p + 3], 1, 2)
           /\ IsSpace(block[p + 4])
           /\ IsDigits(block[p + 5], 1, 2)
           /\ block[p + 6] = Tok(":")
           /\ IsDigits(block[p + 7], 2, 2)
           /\ block[p + 8] = Tok("]")
        THEN SenderMessage(block, p + 9,
                           <<block[p + 1], block[p + 3]>>,
                           <<block[p + 5], block[p + 7]>>)
        ELSE NoMatch

\* ------------------------------------------------------------------------
\* datetime
\* ------------------------------------------------------------------------

DDMM == "%d/%m/%y"
MMDD == "%m/%d/%y"

IsLeap(year) == year % 4 = 0 /\ (year % 100 # 0 \/ year % 400 = 0)

DaysInMonth(year, month) ==
    IF month = 2 THEN (IF IsLeap(year) THEN 29 ELSE 28)
    ELSE IF month \in {4, 6, 9, 11} THEN 30 ELSE 31

\* %y : values 69-99 map to 1969-1999, values 0-68 to 2000-2068
Century(yy) == IF yy <= 68 THEN 2000 + yy ELSE 1900 + yy

NoDatetime == [year |-> 0, month |-> 0, day |-> 0, hour |-> 0, minute |-> 0, second |-> 0]

\* datetime.strptime of "d1/d2/y H:M:S" under fmt, one of %d/%m/%y, %m/%d/%y
\* (two-digit year y) and %d/%m/%Y, %m/%d/%Y (year y as written).  raised
\* stands for ValueError.
strptime(d1, d2, y, H, M, S, fmt) ==
    LET day == IF fmt \in {"%d/%m/%y", "%d/%m/%Y"} THEN d1 ELSE d2
        month == IF fmt \in {"%d/%m/%y", "%d/%m/%Y"} THEN d2 ELSE d1
        year == IF fmt \in {"%d/%m/%y", "%m/%d/%y"} THEN Century(y) ELSE y
    IN  IF /\ month >= 1 /\ month <= 12
           /\ day >= 1 /\ day <= DaysInMonth(year, month)
           /\ H >= 0 /\ H <= 23
           /\ M >= 0 /\ M <= 59
           /\ S >= 0 /\ S <= 59
        THEN [raised |-> FALSE,
              dt |-> [year |-> year, month |-> month, day |-> day,
                      hour |-> H, minute |-> M, second |-> S]]
        ELSE [raised |-> TRUE, dt |-> NoDatetime]

\* a < b on datetimes
DtLess(a, b) ==
    \/ a.year < b.year
    \/ a.year = b.year /\ a.month < b.month
    \/ a.year = b.year /\ a.month = b.month /\ a.day < b.day
    \/ a.year = b.year /\ a.month = b.month /\ a.day = b.day /\ a.hour < b.hour
    \/ a.year = b.year /\ a.month = b.month /\ a.day = b.day /\ a.hour = b.hour
       /\ a.minute < b.minute
    \/ a.year = b.year /\ a.month = b.month /\ a.day = b.day /\ a.hour = b.hour
       /\ a.minute = b.minute /\ a.second < b.second

\* Mutant of strftime: the month is rendered before the day.
strftime_monthfirst(dt) ==
    <<Num(dt.month, 2), Tok("/"), Num(dt.day, 2), SP,
      Num(dt.hour, 2), Tok(":"), Num(dt.minute, 2)>>

\* dt.strftime('%d/%m %H:%M')
strftime(dt) ==
    <<Num(dt.day, 2), Tok("/"), Num(dt.month, 2), SP,
      Num(dt.hour, 2), Tok(":"), Num(dt.minute, 2)>>

\* ------------------------------------------------------------------------
\* infer_date_format
\* ------------------------------------------------------------------------

\* The default of the parameter sample_size.
sample_size == 50

\* blocks[:n]
Prefix(seq, n) == SubSeq(seq, 1, IF n < Len(seq) THEN n ELSE Len(seq))

\* candidates: the date group of every sampled block that FULL_PATTERN matches
RECURSIVE candidates(_)
candidates(sample) ==
    IF sample = <<>> THEN <<>>
    ELSE LET m == FULL_PATTERN(Head(sample))
         IN  (IF m.ok THEN <<m.date>> ELSE <<>>) \o candidates(Tail(sample))

\* score(fmt): how many candidates datetime.strptime(d, fmt) accepts
score(cands, fmt) ==
    Cardinality({k \in 1..Len(cands) :
        ~strptime(cands[k][1].n, cands[k][2].n, cands[k][3].n, 0, 0, 0, fmt).raised})

\* Mutant of infer_date_format: a tie goes to month-first (> for >=).
infer_date_format_tiemonth(blocks, n) ==
    LET cands == candidates(Prefix(blocks, n))
    IN  IF cands = <<>> THEN DDMM
        ELSE IF score(cands, DDMM) > score(cands, MMDD) THEN DDMM ELSE MMDD

infer_date_format(blocks, n) ==
    LET cands == candidates(Prefix(blocks, n))
    IN  IF cands = <<>> THEN DDMM
        ELSE IF score(cands, DDMM) >= score(cands, MMDD) THEN DDMM ELSE MMDD

\* ------------------------------------------------------------------------
\* parse_message_block
\* ------------------------------------------------------------------------

ParsedMessage(dt, sender, message, quoted) ==
    [datetime |-> dt, sender |-> sender, message |-> message, quoted_message |-> quoted]

\* What parse_message_block returns: (parsed, last_datetime, (inferred_dates,
\* ignored_messages), is_quote), or raised when strptime raises ValueError.
Returns(parsed, last, inferred, ignored, is_quote) ==
    [raised |-> FALSE, parsed |-> parsed, last_datetime |-> last,
     block_stats |-> <<inferred, ignored>>, is_quote |-> is_quote]

Raises == [raised |-> TRUE, parsed |-> None, last_datetime |-> None,
           block_stats |-> <<0, 0>>, is_quote |-> FALSE]

\* Mutant of short_format: the date ordering is lost, the day always read first.
short_format_dayfirst(date_format) == "%d/%m/%Y"

\* date_format.replace("%y", "%Y")
short_format(date_format) ==
    IF date_format = "%d/%m/%y" THEN "%d/%m/%Y"
    ELSE IF date_format = "%m/%d/%y" THEN "%m/%d/%Y"
    ELSE date_format

\* Mutant of QuotedHeuristic: detect_quoted is not consulted.
QuotedHeuristic_always(detect_quoted, dt, last) == DtLess(dt, last)

\* Mutant of QuotedHeuristic: the comparison is the wrong way round.
QuotedHeuristic_reversed(detect_quoted, dt, last) == detect_quoted /\ DtLess(last, dt)

\* Quoted message heuristic: timestamp goes backward
QuotedHeuristic(detect_quoted, dt, last) == detect_quoted /\ DtLess(dt, last)

\* datetime.strptime(f"{date} {hour}", f"{date_format} %H:%M:%S")
full_datetime(m, date_format) ==
    strptime(m.date[1].n, m.date[2].n, m.date[3].n,
             m.hour[1].n, m.hour[2].n, m.hour[3].n, date_format)

\* Mutant of short_datetime: a date earlier than last is read in the next year.
short_datetime_rollover(m, last, date_format) ==
    LET t == strptime(m.date[1].n, m.date[2].n, last.year,
                      m.hour[1].n, m.hour[2].n, 0, short_format(date_format))
    IN  IF ~t.raised /\ DtLess(t.dt, last)
        THEN strptime(m.date[1].n, m.date[2].n, last.year + 1,
                      m.hour[1].n, m.hour[2].n, 0, short_format(date_format))
        ELSE t

\* The short-form datetime: the year of last, seconds 00.
short_datetime(m, last, date_format) ==
    strptime(m.date[1].n, m.date[2].n, last.year,
             m.hour[1].n, m.hour[2].n, 0, short_format(date_format))

\* Mutant of parse_full: the full-form block is counted as an inferred date.
parse_full_inferred(m, date_format) ==
    LET t == full_datetime(m, date_format)
    IN  IF t.raised THEN Raises
        ELSE Returns(Some(ParsedMessage(t.dt, m.sender, m.message, FALSE)),
                     Some(t.dt), 1, 0, FALSE)

\* Mutant of parse_full: the body stops at the first newline of the block.
parse_full_firstline(m, date_format) ==
    LET t == full_datetime(m, date_format)
        breaks == {k \in 1..Len(m.message) : m.message[k] = LF}
        first == IF breaks = {} THEN Len(m.message) + 1
                 ELSE CHOOSE k \in breaks : \A j \in breaks : k <= j
    IN  IF t.raised THEN Raises
        ELSE Returns(Some(ParsedMessage(t.dt, m.sender, SubSeq(m.message, 1, first - 1),
                                        FALSE)),
                     Some(t.dt), 0, 0, FALSE)

\* Mutant of parse_full: last_datetime is not set by a full-form block.
parse_full_noanchor(m, date_format) ==
    LET t == full_datetime(m, date_format)
    IN  IF t.raised THEN Raises
        ELSE Returns(Some(ParsedMessage(t.dt, m.sender, m.message, FALSE)),
                     None, 0, 0, FALSE)

\* Mutant of parse_full: a date that is invalid under date_format is read under
\* the other ordering.
parse_full_reinfer(m, date_format) ==
    LET t == full_datetime(m, date_format)
        u == full_datetime(m, IF date_format = DDMM THEN MMDD ELSE DDMM)
    IN  IF ~t.raised
        THEN Returns(Some(ParsedMessage(t.dt, m.sender, m.message, FALSE)),
                     Some(t.dt), 0, 0, FALSE)
        ELSE IF ~u.raised
        THEN Returns(Some(ParsedMessage(u.dt, m.sender, m.message, FALSE)),
                     Some(u.dt), 0, 0, FALSE)
        ELSE Raises

\* Mutant of parse_full: an invalid date is ignored instead of raising.
parse_full_lenient(m, date_format) ==
    LET t == full_datetime(m, date_format)
    IN  IF t.raised THEN Returns(None, None, 0, 1, FALSE)
        ELSE Returns(Some(ParsedMessage(t.dt, m.sender, m.message, FALSE)),
                     Some(t.dt), 0, 0, FALSE)

\* The full-form branch.
parse_full(m, date_format) ==
    LET t == full_datetime(m, date_format)
    IN  IF t.raised THEN Raises
        ELSE Returns(Some(ParsedMessage(t.dt, m.sender, m.message, FALSE)),
                     Some(t.dt), 0, 0, FALSE)

\* Mutant of parse_short: a fold takes back one inferred date.
parse_short_uncount(m, last, date_format, detect_quoted) ==
    LET t == short_datetime(m, last, date_format)
    IN  IF t.raised THEN Raises
        ELSE IF QuotedHeuristic(detect_quoted, t.dt, last)
        THEN Returns(Some(ParsedMessage(last, m.sender, m.message, TRUE)),
                     Some(last), -1, 0, TRUE)
        ELSE Returns(Some(ParsedMessage(t.dt, m.sender, m.message, FALSE)),
                     Some(t.dt), 1, 0, FALSE)

\* Mutant of parse_short: a fold is counted as an inferred date.
parse_short_countfold(m, last, date_format, detect_quoted) ==
    LET t == short_datetime(m, last, date_format)
    IN  IF t.raised THEN Raises
        ELSE IF QuotedHeuristic(detect_quoted, t.dt, last)
        THEN Returns(Some(ParsedMessage(last, m.sender, m.message, TRUE)),
                     Some(last), 1, 0, TRUE)
        ELSE Returns(Some(ParsedMessage(t.dt, m.sender, m.message, FALSE)),
                     Some(t.dt), 1, 0, FALSE)

\* Mutant of parse_short: a fold advances last_datetime to the folded timestamp.
parse_short_advance(m, last, date_format, detect_quoted) ==
    LET t == short_datetime(m, last, date_format)
    IN  IF t.raised THEN Raises
        ELSE IF QuotedHeuristic(detect_quoted, t.dt, last)
        THEN Returns(Some(ParsedMessage(last, m.sender, m.message, TRUE)),
                     Some(t.dt), 0, 0, TRUE)
        ELSE Returns(Some(ParsedMessage(t.dt, m.sender, m.message, FALSE)),
                     Some(t.dt), 1, 0, FALSE)

\* The short-form branch; last is the datetime in last_datetime.
parse_short(m, last, date_format, detect_quoted) ==
    LET t == short_datetime(m, last, date_format)
    IN  IF t.raised THEN Raises
        ELSE IF QuotedHeuristic(detect_quoted, t.dt, last)
        THEN Returns(Some(ParsedMessage(last, m.sender, m.message, TRUE)),
                     Some(last), 0, 0, TRUE)
        ELSE Returns(Some(ParsedMessage(t.dt, m.sender, m.message, FALSE)),
                     Some(t.dt), 1, 0, FALSE)

\* Mutant of parse_message_block: an unparsable block is not counted.
parse_message_block_uncounted(block, last_datetime, date_format, detect_quoted) ==
    LET m_full == FULL_PATTERN(block)
        m_short == SHORT_PATTERN(block)
    IN  IF m_full.ok THEN parse_full(m_full, date_format)
        ELSE IF m_short.ok /\ last_datetime # None
        THEN parse_short(m_short, last_datetime[1], date_format, detect_quoted)
        ELSE Returns(None, last_datetime, 0, 0, FALSE)

\* Mutant of parse_message_block: an unparsable block counts once per line.
parse_message_block_perline(block, last_datetime, date_format, detect_quoted) ==
    LET m_full == FULL_PATTERN(block)
        m_short == SHORT_PATTERN(block)
    IN  IF m_full.ok THEN parse_full(m_full, date_format)
        ELSE IF m_short.ok /\ last_datetime # None
        THEN parse_short(m_short, last_datetime[1], date_format, detect_quoted)
        ELSE Returns(None, last_datetime, 0,
                     1 + Cardinality({k \in 1..Len(block) : block[k] = LF}), FALSE)

\* Mutant of parse_message_block: a short-form block without an anchor raises.
parse_message_block_noanchor(block, last_datetime, date_format, detect_quoted) ==
    LET m_full == FULL_PATTERN(block)
        m_short == SHORT_PATTERN(block)
    IN  IF m_full.ok THEN parse_full(m_full, date_format)
        ELSE IF m_short.ok
        THEN (IF last_datetime # None
              THEN parse_short(m_short, last_datetime[1], date_format, detect_quoted)
              ELSE Raises)
        ELSE Returns(None, last_datetime, 0, 1, FALSE)

\* Mutant of parse_message_block: an unparsable block resets last_datetime.
parse_message_block_reset(block, last_datetime, date_format, detect_quoted) ==
    LET m_full == FULL_PATTERN(block)
        m_short == SHORT_PATTERN(block)
    IN  IF m_full.ok THEN parse_full(m_full, date_format)
        ELSE IF m_short.ok /\ last_datetime # None
        THEN parse_short(m_short, last_datetime[1], date_format, detect_quoted)
        ELSE Returns(None, None, 0, 1, FALSE)

parse_message_block(block, last_datetime, date_format, detect_quoted) ==
    LET m_full == FULL_PATTERN(block)
        m_short == SHORT_PATTERN(block)
    IN  IF m_full.ok THEN parse_full(m_full, date_format)
        ELSE IF m_short.ok /\ last_datetime # None
        THEN parse_short(m_short, last_datetime[1], date_format, detect_quoted)
        ELSE Returns(None, last_datetime, 0, 1, FALSE)

\* ------------------------------------------------------------------------
\* The transcripts fed to the parser
\* ------------------------------------------------------------------------

\* "[d1/d2/yy, H:M:S] sender: body\n"
FullLine(d1, d2, yy, H, M, S, sender, body) ==
    <<Tok("["), Num(d1, 2), Tok("/"), Num(d2, 2), Tok("/"), Num(yy, 2), Tok(","), SP,
      Num(H, 2), Tok(":"), Num(M, 2), Tok(":"), Num(S, 2), Tok("]"), SP,
      Tok(sender), Tok(":"), SP, Tok(body), LF>>

\* "[d1/d2 H:M] sender: body\n"
ShortLine(d1, d2, H, M, sender, body) ==
    <<Tok("["), Num(d1, 2), Tok("/"), Num(d2, 2), SP,
      Num(H, 2), Tok(":"), Num(M, 2), Tok("]"), SP,
      Tok(sender), Tok(":"), SP, Tok(body), LF>>

\* The raw lines a transcript is built from.
InputLines ==
    { <<LRM>> \o FullLine(5, 11, 23, 9, 5, 0, "Ann", "look"),
      FullLine(4, 11, 22, 9, 0, 30, "Bob", "hello"),
      FullLine(13, 2, 23, 10, 0, 0, "Ann", "ok"),
      ShortLine(5, 11, 8, 0, "Bob", "Hi"),
      ShortLine(5, 11, 9, 6, "Ann", "there"),
      ShortLine(29, 2, 9, 7, "Bob", "leap"),
      FullLine(2, 13, 23, 10, 0, 0, "Bob", "us"),
      <<Tok("["), Tok("attached"), LF>>,
      <<Tok("more"), LF>> }

\* import_config: None, or a ChatImportConfig with its date_format
ImportConfigs ==
    { None,
      Some([date_format |-> None]),
      Some([date_format |-> Some(DDMM)]),
      Some([date_format |-> Some(MMDD)]) }

\* ------------------------------------------------------------------------
\* State
\* ------------------------------------------------------------------------

VARIABLES
    pc,                           \* where parse_chat is
    lines,                        \* the raw lines read from the iterable so far
    detect_quoted,                \* argument of parse_chat
    import_config,                \* argument of parse_chat
    blocks,                       \* segment_messages: messages; parse_chat: blocks
    current,                      \* segment_messages: the lines of the open block
    segment_stats,                \* segment_messages: stats
    previous_line_message_start,  \* segment_messages
    date_format,                  \* parse_chat
    data,                         \* parse_chat: the records
    last_datetime,                \* parse_chat
    stats,                        \* parse_chat
    first_quote,                  \* parse_chat
    next_block,                   \* parse_chat: index of the next block of the loop
    call,                         \* a direct call of a helper: arguments and result
    ui_module,                    \* load_chat: the module it is taken from
    session_state,                \* load_chat: st.session_state
    cache,                        \* load_chat: the sources st.cache_data holds a parse of
    rerun                         \* load_chat: what the last rerun of the script did

seg_vars == <<lines, blocks, current, segment_stats, previous_line_message_start>>
ui_vars == <<ui_module, session_state, cache, rerun>>
arg_vars == <<detect_quoted, import_config, call, ui_vars>>
loop_vars == <<date_format, data, last_datetime, stats, first_quote, next_block>>
vars == <<pc, seg_vars, arg_vars, loop_vars>>

NoStats == [total_lines |-> 0, parsed_messages |-> 0, multiline_messages |-> 0,
            inferred_dates |-> 0, ignored_lines |-> 0, quoted_messages |-> 0]

\* No helper has been called directly.
NoCall == [fn |-> "", line |-> <<>>, blocks |-> <<>>, sample_size |-> 0, result |-> None]

\* st.session_state without the keys chat_source and demo_chat_bytes.
EmptySession == [has_chat_source |-> FALSE, chat_source |-> None,
                 has_demo_chat_bytes |-> FALSE]

\* The script has not run yet.
NoRerun == [n |-> 0, uploaded_file |-> FALSE, button |-> "", chat_source |-> None,
            cleared |-> FALSE, parse_called |-> FALSE, outcome |-> ""]

\* The user interface is not running.
NoUpload ==
    /\ ui_module = ""
    /\ session_state = EmptySession
    /\ cache = {}
    /\ rerun = NoRerun

Init ==
    /\ pc = "segment"
    /\ call = NoCall
    /\ NoUpload
    /\ lines = <<>>
    /\ detect_quoted \in BOOLEAN
    /\ import_config \in ImportConfigs
    /\ blocks = <<>>
    /\ current = <<>>
    /\ segment_stats = [total_lines |-> 0, parsed_messages |-> 0, multiline_messages |-> 0]
    /\ previous_line_message_start = FALSE
    /\ date_format = ""
    /\ data = <<>>
    /\ last_datetime = None
    /\ stats = NoStats
    /\ first_quote = TRUE
    /\ next_block = 1

\* ------------------------------------------------------------------------
\* segment_messages
\* ------------------------------------------------------------------------

\* Mutant of Join: the lines are joined by a space.
RECURSIVE Join_space(_)
Join_space(ls) ==
    IF ls = <<>> THEN <<>>
    ELSE IF Len(ls) = 1 THEN ls[1]
    ELSE ls[1] \o <<SP>> \o Join_space(Tail(ls))

\* "\n".join(current)
RECURSIVE Join(_)
Join(ls) ==
    IF ls = <<>> THEN <<>>
    ELSE IF Len(ls) = 1 THEN ls[1]
    ELSE ls[1] \o <<LF>> \o Join(Tail(ls))

\* if current: messages.append("\n".join(current))
Flush(messages, cur) == IF cur # <<>> THEN Append(messages, Join(cur)) ELSE messages

\* Mutant of Absorb: the line is appended also when no block is open.
Absorb_always(cur, line) == Append(cur, line)

\* The else branch: if current: current.append(line)
Absorb(cur, line) == IF cur # <<>> THEN Append(cur, line) ELSE cur

\* Mutant of MultilineIncrement: every non-header line is counted.
MultilineIncrement_every(previous) == 1

\* The else branch: what is added to stats["multiline_messages"]
MultilineIncrement(previous) == IF previous THEN 1 ELSE 0

\* One iteration of the loop over the lines; the iterable yields a line of
\* raw_lines.
SegmentLineFrom(raw_lines) ==
    /\ pc = "segment"
    /\ Len(lines) < MaxLines
    /\ \E raw_line \in raw_lines :
        LET line == clean_line(raw_line)
        IN  /\ lines' = Append(lines, raw_line)
            /\ IF MESSAGE_START(line)
               THEN /\ segment_stats' =
                         [segment_stats EXCEPT !.total_lines = @ + 1,
                                               !.parsed_messages = @ + 1]
                    /\ blocks' = Flush(blocks, current)
                    /\ current' = <<line>>
                    /\ previous_line_message_start' = TRUE
               ELSE /\ segment_stats' =
                         [segment_stats EXCEPT
                            !.total_lines = @ + 1,
                            !.multiline_messages =
                                @ + MultilineIncrement(previous_line_message_start)]
                    /\ blocks' = blocks
                    /\ current' = Absorb(current, line)
                    /\ previous_line_message_start' = FALSE
    /\ UNCHANGED <<pc, arg_vars, loop_vars>>

SegmentLine == SegmentLineFrom(InputLines)

\* The iterable is exhausted: the open block is flushed and the segmenter returns.
SegmentReturn ==
    /\ pc = "segment"
    /\ blocks' = Flush(blocks, current)
    /\ pc' = "config"
    /\ UNCHANGED <<lines, current, segment_stats, previous_line_message_start,
                   arg_vars, loop_vars>>

\* ------------------------------------------------------------------------
\* parse_chat
\* ------------------------------------------------------------------------

\* Mutant of ChosenFormat: the import configuration is not consulted.
ChosenFormat_inferred(config, bs) == infer_date_format(bs, sample_size)

\* if import_config and import_config.date_format: ... else: infer_date_format(blocks)
ChosenFormat(config, bs) ==
    IF config # None /\ config[1].date_format # None
    THEN config[1].date_format[1]
    ELSE infer_date_format(bs, sample_size)

\* The date format is chosen and the locals of the loop are set up.
Configure ==
    /\ pc = "config"
    /\ date_format' = ChosenFormat(import_config, blocks)
    /\ data' = <<>>
    /\ last_datetime' = None
    /\ stats' = [total_lines |-> segment_stats.total_lines,
                 parsed_messages |-> segment_stats.parsed_messages,
                 multiline_messages |-> segment_stats.multiline_messages,
                 inferred_dates |-> 0, ignored_lines |-> 0, quoted_messages |-> 0]
    /\ first_quote' = TRUE
    /\ next_block' = 1
    /\ pc' = "blocks"
    /\ UNCHANGED <<seg_vars, arg_vars>>

\* f"\n[{parsed['datetime'].strftime('%d/%m %H:%M')}] {parsed['sender']}: {parsed['message']}"
Citation(parsed) ==
    <<LF, Tok("[")>> \o strftime(parsed.datetime) \o <<Tok("]"), SP>>
        \o parsed.sender \o <<Tok(":"), SP>> \o parsed.message

\* Mutant of FoldInto: the citation replaces the body (= for +=).
FoldInto_assign(records, parsed, first) ==
    [records EXCEPT ![Len(records)] =
        [@ EXCEPT !.message = Citation(parsed),
                  !.quoted_message = IF first THEN TRUE ELSE @]]

\* Mutant of FoldInto: the citation goes to the first record (data[0]).
FoldInto_first(records, parsed, first) ==
    [records EXCEPT ![1] =
        [@ EXCEPT !.message = @ \o Citation(parsed),
                  !.quoted_message = IF first THEN TRUE ELSE @]]

\* data[-1]["message"] += citation, and under first_quote the flag of data[-1]
FoldInto(records, parsed, first) ==
    [records EXCEPT ![Len(records)] =
        [@ EXCEPT !.message = @ \o Citation(parsed),
                  !.quoted_message = IF first THEN TRUE ELSE @]]

\* Mutant of FoldCount: every fold is counted.
FoldCount_every(first) == 1

\* What the first fold adds to multiline_messages and quoted_messages.
FoldCount(first) == IF first THEN 1 ELSE 0

\* One iteration of the loop over the blocks.  A ValueError of strptime, or an
\* IndexError of data[-1], propagates out of parse_chat.
ParseBlock ==
    /\ pc = "blocks"
    /\ next_block <= Len(blocks)
    /\ LET r == parse_message_block(blocks[next_block], last_datetime,
                                    date_format, detect_quoted)
       IN  IF r.raised
           THEN /\ pc' = "ValueError"
                /\ UNCHANGED loop_vars
           ELSE IF r.parsed # None /\ r.is_quote /\ data = <<>>
           THEN /\ pc' = "IndexError"
                /\ last_datetime' = r.last_datetime
                /\ UNCHANGED <<date_format, data, stats, first_quote, next_block>>
           ELSE /\ pc' = pc
                /\ last_datetime' = r.last_datetime
                /\ next_block' = next_block + 1
                /\ date_format' = date_format
                /\ IF r.parsed # None /\ r.is_quote
                   THEN /\ data' = FoldInto(data, r.parsed[1], first_quote)
                        /\ first_quote' = FALSE
                        /\ stats' = [stats EXCEPT
                              !.multiline_messages = @ + FoldCount(first_quote),
                              !.quoted_messages = @ + FoldCount(first_quote),
                              !.inferred_dates = @ + r.block_stats[1],
                              !.ignored_lines = @ + r.block_stats[2]]
                   ELSE /\ data' = IF r.parsed # None THEN Append(data, r.parsed[1])
                                   ELSE data
                        /\ first_quote' = first_quote
                        /\ stats' = [stats EXCEPT
                              !.inferred_dates = @ + r.block_stats[1],
                              !.ignored_lines = @ + r.block_stats[2]]
    /\ UNCHANGED <<seg_vars, arg_vars>>

\* return pd.DataFrame(data), stats
Return ==
    /\ pc = "blocks"
    /\ next_block > Len(blocks)
    /\ pc' = "done"
    /\ UNCHANGED <<seg_vars, arg_vars, loop_vars>>

Next == SegmentLine \/ SegmentReturn \/ Configure \/ ParseBlock \/ Return

Spec == Init /\ [][Next]_vars

\* ------------------------------------------------------------------------
\* parse_chat on transcripts with a turn of the year, a header line that has
\* no colon, and Windows line endings
\* ------------------------------------------------------------------------

\* "[05/11/23, 09:05:00] Ann\n": it starts a block, and FULL_PATTERN does not
\* match it.
ColonlessHeader ==
    <<Tok("["), Num(5, 2), Tok("/"), Num(11, 2), Tok("/"), Num(23, 2), Tok(","), SP,
      Num(9, 2), Tok(":"), Num(5, 2), Tok(":"), Num(0, 2), Tok("]"), SP,
      Tok("Ann"), LF>>

\* The line with "\r\n" for "\n", as splitlines(keepends=True) yields it.
WithCRLF(line) == SubSeq(line, 1, Len(line) - 1) \o <<CR, LF>>

EdgeLines ==
    { FullLine(31, 12, 23, 23, 50, 0, "Ann", "bye"),
      ShortLine(1, 1, 0, 5, "Bob", "ny"),
      ShortLine(29, 2, 9, 7, "Bob", "leap"),
      WithCRLF(ShortLine(31, 12, 23, 55, "Bob", "late")),
      ColonlessHeader,
      <<Tok("x"), Tok(":"), SP, Tok("y"), LF>>,
      <<Tok("more"), LF>> }

SegmentEdgeLine == SegmentLineFrom(EdgeLines)

NextEdge == SegmentEdgeLine \/ SegmentReturn \/ Configure \/ ParseBlock \/ Return

SpecEdge == Init /\ [][NextEdge]_vars

\* ------------------------------------------------------------------------
\* Direct calls of the helpers infer_date_format and clean_line
\* ------------------------------------------------------------------------

\* parse_chat is not running.
Idle ==
    /\ pc = "helper"
    /\ lines = <<>>
    /\ detect_quoted = TRUE
    /\ import_config = None
    /\ blocks = <<>>
    /\ current = <<>>
    /\ segment_stats = [total_lines |-> 0, parsed_messages |-> 0, multiline_messages |-> 0]
    /\ previous_line_message_start = FALSE
    /\ date_format = ""
    /\ data = <<>>
    /\ last_datetime = None
    /\ stats = NoStats
    /\ first_quote = TRUE
    /\ next_block = 1

\* The sequences over S of length at most n.
SeqsUpTo(S, n) == UNION {[1..k -> S] : k \in 0..n}

\* The blocks infer_date_format is called on: full-form blocks whose date is
\* valid under both orderings, day-first only, month-first only and neither,
\* a short-form block and an unparsable block.
InferBlocks ==
    { clean_line(FullLine(5, 11, 23, 9, 5, 0, "Ann", "look")),
      clean_line(FullLine(13, 2, 23, 10, 0, 0, "Ann", "ok")),
      clean_line(FullLine(2, 13, 23, 10, 0, 0, "Bob", "us")),
      clean_line(FullLine(31, 31, 23, 10, 0, 0, "Bob", "no")),
      clean_line(ShortLine(5, 11, 8, 0, "Bob", "Hi")),
      <<Tok("["), Tok("attached")>> }

\* The values of the parameter sample_size: small ones and the default.
SampleSizes == (0..MaxSample) \cup {sample_size}

InitInfer ==
    /\ Idle
    /\ NoUpload
    /\ \E bs \in SeqsUpTo(InferBlocks, MaxBlocks), n \in SampleSizes :
          call = [NoCall EXCEPT !.blocks = bs, !.sample_size = n]

\* infer_date_format(blocks, sample_size)
InferCall ==
    /\ call.fn = ""
    /\ call' = [call EXCEPT
                   !.fn = "infer_date_format",
                   !.result = Some(infer_date_format(call.blocks, call.sample_size))]
    /\ UNCHANGED <<pc, seg_vars, detect_quoted, import_config, ui_vars, loop_vars>>

NextInfer == InferCall

SpecInfer == InitInfer /\ [][NextInfer]_vars

\* The characters a raw line is made of.
LineTokens == {BOM, LRM, RLM, LF, CR, SP, Tok("a")}

InitClean ==
    /\ Idle
    /\ NoUpload
    /\ \E raw_line \in SeqsUpTo(LineTokens, MaxTokens) :
          call = [NoCall EXCEPT !.line = raw_line]

\* clean_line(line)
CleanCall ==
    /\ call.fn = ""
    /\ call' = [call EXCEPT !.fn = "clean_line",
                             !.result = Some(clean_line(call.line))]
    /\ UNCHANGED <<pc, seg_vars, detect_quoted, import_config, ui_vars, loop_vars>>

NextClean == CleanCall

SpecClean == InitClean /\ [][NextClean]_vars

\* ------------------------------------------------------------------------
\* load_chat (src/app/ui/uploads.py and the older src/ui/uploads.py): one
\* step is one rerun of the Streamlit script
\* ------------------------------------------------------------------------

AppModule == "src/app/ui/uploads.py"
LegacyModule == "src/ui/uploads.py"

DEMO_MODE == TRUE

\* if "chat_source" not in st.session_state: st.session_state["chat_source"] = None
InitSession(m, ss) ==
    IF m = AppModule /\ ~ss.has_chat_source
    THEN [ss EXCEPT !.has_chat_source = TRUE, !.chat_source = None]
    ELSE ss

\* uploaded_file is not None; widget is what st.file_uploader returns
UploadedFile(m, widget) == IF m = AppModule /\ DEMO_MODE THEN FALSE ELSE widget

\* The buttons of the page; "" is no button pressed.
Buttons(m) == IF m = AppModule THEN {"", "sample", "generate"} ELSE {"", "sample"}

\* if st.button(...): st.session_state["chat_source"] = ...
PressButton(ss, button) ==
    IF button = "sample"
    THEN [ss EXCEPT !.has_chat_source = TRUE, !.chat_source = Some("sample")]
    ELSE IF button = "generate"
    THEN [ss EXCEPT !.has_chat_source = TRUE, !.chat_source = Some("demo_generated"),
                    !.has_demo_chat_bytes = TRUE]
    ELSE ss

\* Mutant of Precedence: the source "upload" is kept when the file is removed.
Precedence_keep(ss, uploaded_file) ==
    IF uploaded_file
    THEN [raised |-> FALSE,
          ss |-> [ss EXCEPT !.has_chat_source = TRUE, !.chat_source = Some("upload")]]
    ELSE IF ~ss.has_chat_source
    THEN [raised |-> TRUE, ss |-> ss]
    ELSE [raised |-> FALSE, ss |-> ss]

\* "Uploaded file takes precedence", else a stored "upload" is reset to None;
\* st.session_state["chat_source"] raises KeyError when the key is missing.
Precedence(ss, uploaded_file) ==
    IF uploaded_file
    THEN [raised |-> FALSE,
          ss |-> [ss EXCEPT !.has_chat_source = TRUE, !.chat_source = Some("upload")]]
    ELSE IF ~ss.has_chat_source
    THEN [raised |-> TRUE, ss |-> ss]
    ELSE IF ss.chat_source = Some("upload")
    THEN [raised |-> FALSE, ss |-> [ss EXCEPT !.chat_source = None]]
    ELSE [raised |-> FALSE, ss |-> ss]

\* What parse_chat_file(file_obj) does with the file: records, none, or an
\* exception of parse_chat.
ParseResults == {"records", "empty", "ValueError"}

\* How load_chat ends after parse_chat_file.
AfterParse(result) ==
    IF result = "records" THEN "return df"
    ELSE IF result = "empty" THEN "st.stop"
    ELSE result

InitUpload ==
    /\ Idle
    /\ call = NoCall
    /\ ui_module \in {AppModule, LegacyModule}
    /\ session_state = EmptySession
    /\ cache = {}
    /\ rerun = NoRerun

\* One rerun of the script: load_chat from its first line to st.stop(), an
\* exception or return.
Rerun ==
    /\ rerun.n < MaxReruns
    /\ \E widget \in BOOLEAN, button \in Buttons(ui_module), result \in ParseResults :
        LET uploaded_file == UploadedFile(ui_module, widget)
            p == Precedence(PressButton(InitSession(ui_module, session_state), button),
                            uploaded_file)
            chat_source == IF p.ss.has_chat_source THEN p.ss.chat_source ELSE None
            start == [n |-> rerun.n + 1, uploaded_file |-> uploaded_file,
                      button |-> button, chat_source |-> chat_source,
                      cleared |-> FALSE, parse_called |-> FALSE, outcome |-> ""]
        IN  /\ session_state' = p.ss
            /\ IF p.raised
               THEN /\ cache' = cache
                    /\ rerun' = [start EXCEPT !.outcome = "KeyError"]
               ELSE IF chat_source = None
               THEN /\ cache' = {}
                    /\ rerun' = [start EXCEPT !.cleared = TRUE, !.outcome = "st.stop"]
               ELSE /\ cache' = IF result = "ValueError" THEN cache
                                ELSE cache \cup {chat_source[1]}
                    /\ rerun' = [start EXCEPT !.parse_called = TRUE,
                                              !.outcome = AfterParse(result)]
    /\ UNCHANGED <<ui_module, pc, seg_vars, detect_quoted, import_config, call, loop_vars>>

NextUpload == Rerun

SpecUpload == InitUpload /\ [][NextUpload]_vars

\* ------------------------------------------------------------------------
\* Vocabulary of the properties
\* ------------------------------------------------------------------------

\* The loop of parse_chat is about to process blocks[next_block].
AtBlock == pc = "blocks" /\ next_block <= Len(blocks)
CurBlock == blocks[next_block]

IsFullBlock(b) == FULL_PATTERN(b).ok
IsShortBlock(b) == ~FULL_PATTERN(b).ok /\ SHORT_PATTERN(b).ok

\* The segmenter has returned.
Segmented == pc # "segment"
\* The block loop is running or has finished without an exception.
InLoop == pc \in {"blocks", "done"}

IsPrefix(a, b) == Len(a) <= Len(b) /\ SubSeq(b, 1, Len(a)) = a

\* The line (raw) is a header line for the segmenter.
IsHeader(raw) == MESSAGE_START(clean_line(raw))
HeaderLines == {k \in 1..Len(lines) : IsHeader(lines[k])}
\* Non-header lines that come right after a header line.
FirstContinuations ==
    {k \in 2..Len(lines) : ~IsHeader(lines[k]) /\ IsHeader(lines[k - 1])}
\* Non-header lines read before the first header line.
DroppedLines ==
    {k \in 1..Len(lines) : \A j \in 1..k : ~IsHeader(lines[j])}

\* Continuation lines of a block: one per newline that joins its lines.
ContinuationLines(block) == Cardinality({k \in 1..Len(block) : block[k] = LF})

RECURSIVE AbsorbedLines(_)
AbsorbedLines(bs) ==
    IF bs = <<>> THEN 0 ELSE ContinuationLines(Head(bs)) + AbsorbedLines(Tail(bs))

\* Citations in a body.  A body taken from a block never holds a newline
\* followed by an opening bracket (such a line starts a block of its own), so
\* each occurrence is the start of one folded citation.
CitationCount(message) ==
    Cardinality({k \in 1..(Len(message) - 1) :
                    message[k] = LF /\ message[k + 1] = Tok("[")})

RECURSIVE Citations(_)
Citations(records) ==
    IF records = <<>> THEN 0
    ELSE CitationCount(Head(records).message) + Citations(Tail(records))

\* The block about to be processed is a short-form block whose inferred
\* timestamp is strictly earlier than last_datetime, with quote detection on.
FoldCase ==
    /\ AtBlock
    /\ detect_quoted
    /\ IsShortBlock(CurBlock)
    /\ last_datetime # None
    /\ LET t == short_datetime(SHORT_PATTERN(CurBlock), last_datetime[1], date_format)
       IN  ~t.raised /\ DtLess(t.dt, last_datetime[1])

\* The block about to be processed is a short-form block with an anchor and a
\* valid date that does not meet the fold condition.
InheritCase ==
    /\ AtBlock
    /\ IsShortBlock(CurBlock)
    /\ last_datetime # None
    /\ LET t == short_datetime(SHORT_PATTERN(CurBlock), last_datetime[1], date_format)
       IN  ~t.raised /\ ~(detect_quoted /\ DtLess(t.dt, last_datetime[1]))

\* The block about to be processed is a full-form block with a valid date.
FullCase ==
    /\ AtBlock
    /\ IsFullBlock(CurBlock)
    /\ ~full_datetime(FULL_PATTERN(CurBlock), date_format).raised

\* The block about to be processed matches neither grammar, or is a short-form
\* block that comes before any record.
IgnoreCase ==
    /\ AtBlock
    /\ \/ ~IsFullBlock(CurBlock) /\ ~IsShortBlock(CurBlock)
       \/ IsShortBlock(CurBlock) /\ data = <<>>

\* The block about to be processed matches the full or the short grammar (the
\* latter with an anchor to inherit the year from), and its numbers are not a
\* date and time under date_format.
InvalidCase ==
    /\ AtBlock
    /\ \/ /\ IsFullBlock(CurBlock)
          /\ full_datetime(FULL_PATTERN(CurBlock), date_format).raised
       \/ /\ IsShortBlock(CurBlock)
          /\ last_datetime # None
          /\ short_datetime(SHORT_PATTERN(CurBlock), last_datetime[1], date_format).raised

\* parse_chat has propagated an exception.
Aborted == pc \in {"ValueError", "IndexError"}

\* The date of the full-form block b is a calendar date when read under fmt.
IsDateUnder(b, fmt) ==
    LET m == FULL_PATTERN(b)
    IN  ~strptime(m.date[1].n, m.date[2].n, m.date[3].n, 0, 0, 0, fmt).raised

\* How many of the blocks bs[k], k in K, are full-form with a date valid under fmt.
ValidDates(bs, K, fmt) ==
    Cardinality({k \in K : IsFullBlock(bs[k]) /\ IsDateUnder(bs[k], fmt)})

\* The ordering under which more of the full-form blocks of K have a valid
\* date; day-first when the numbers are equal (so also when both are zero).
MajorityOrdering(bs, K) ==
    IF ValidDates(bs, K, MMDD) > ValidDates(bs, K, DDMM) THEN MMDD ELSE DDMM

\* The indexes of the first n blocks.
FirstBlocks(bs, n) == {k \in 1..Len(bs) : k <= n}

\* The indexes of the first n full-form blocks: the full-form blocks that
\* fewer than n full-form blocks precede.
FirstFullBlocks(bs, n) ==
    {k \in 1..Len(bs) :
        /\ IsFullBlock(bs[k])
        /\ Cardinality({j \in 1..(k - 1) : IsFullBlock(bs[j])}) < n}

\* The import configuration supplies a date ordering.
Supplied == import_config # None /\ import_config[1].date_format # None

\* infer_date_format has been called directly and has returned.
Inferred == call.fn = "infer_date_format"

\* The index of the i-th header line of the input.
NthHeader(i) ==
    CHOOSE h \in HeaderLines : Cardinality({j \in HeaderLines : j < h}) = i - 1

\* The index of the last line before the (i+1)-th header line, or of the last
\* line of the input.
LastLineOf(i) ==
    IF i = Cardinality(HeaderLines) THEN Len(lines) ELSE NthHeader(i + 1) - 1

\* The normalized lines h..e of the input with a newline between them.
RECURSIVE JoinedLines(_, _)
JoinedLines(h, e) ==
    IF e = h THEN clean_line(lines[h])
    ELSE JoinedLines(h, e - 1) \o <<LF>> \o clean_line(lines[e])

\* The header line of the i-th block, taken alone, matches neither grammar.
JunkHeader(i) ==
    LET header == clean_line(lines[NthHeader(i)])
    IN  ~FULL_PATTERN(header).ok /\ ~SHORT_PATTERN(header).ok

\* ------------------------------------------------------------------------
\* Properties
\* ------------------------------------------------------------------------

\* C1: with quote detection enabled, a short-form block whose inferred
\* timestamp is strictly earlier than last_datetime never becomes a record of
\* its own: the step that processes it leaves the number of records unchanged
\* and makes the body of the last record strictly longer.
C1_QuoteFold ==
    [][FoldCase =>
        /\ pc' = "blocks"
        /\ next_block' = next_block + 1
        /\ Len(data) > 0
        /\ Len(data') = Len(data)
        /\ Len(data'[Len(data)].message) > Len(data[Len(data)].message)
        /\ IsPrefix(data[Len(data)].message, data'[Len(data)].message)]_vars

C1_Witness ==
    /\ pc = "done"
    /\ detect_quoted
    /\ Len(blocks) = 2
    /\ Len(data) = 1
    /\ CitationCount(data[1].message) = 1
    /\ stats.quoted_messages = 1

\* C2: only the first fold of a transcript increments quoted_messages and
\* multiline_messages and sets quoted_message on its target; every later fold
\* appends its citation and changes no counter and no flag.  So quoted_messages
\* is 0 or 1 and at most one record is flagged, however many folds occurred.
C2_State ==
    InLoop =>
        /\ stats.quoted_messages \in {0, 1}
        /\ Cardinality({k \in 1..Len(data) : data[k].quoted_message}) <= 1
        /\ stats.quoted_messages = (IF Citations(data) > 0 THEN 1 ELSE 0)
        /\ stats.multiline_messages =
              segment_stats.multiline_messages + stats.quoted_messages

C2_Step ==
    FoldCase =>
        /\ Len(data') = Len(data)
        /\ CitationCount(data'[Len(data)].message) =
              CitationCount(data[Len(data)].message) + 1
        /\ IF Citations(data) = 0
           THEN /\ stats' = [stats EXCEPT !.quoted_messages = @ + 1,
                                          !.multiline_messages = @ + 1]
                /\ data'[Len(data)].quoted_message
           ELSE /\ stats' = stats
                /\ \A k \in 1..Len(data) :
                      data'[k].quoted_message = data[k].quoted_message

C3_Monotone ==
    pc = "done" =>
        \A k \in 1..(Len(data) - 1) : ~DtLess(data[k + 1].datetime, data[k].datetime)

\* C3 amended: with quote detection enabled, a record made from a short-form
\* block is never earlier than the record before it (full-form blocks, and
\* short-form blocks with detection disabled, may be).
C3_ShortNeverEarlier ==
    [][(AtBlock /\ detect_quoted /\ IsShortBlock(CurBlock)
            /\ Len(data) > 0 /\ Len(data') = Len(data) + 1) =>
        ~DtLess(data'[Len(data')].datetime, data[Len(data)].datetime)]_vars

C3_Witness ==
    /\ pc = "done"
    /\ detect_quoted
    /\ Len(data) = 2
    /\ stats.inferred_dates = 1
    /\ DtLess(data[1].datetime, data[2].datetime)

C6_DroppedLineIgnored ==
    pc = "done" => stats.ignored_lines >= Cardinality(DroppedLines)

\* C7: after a parse that returns, every block is the origin of one record,
\* or a fold whose citation is in a record's body, or counted once in
\* ignored_lines: parsed_messages = records + folds + ignored_lines (and the
\* same holds of the blocks processed so far at every point of the loop).
C7_NoSilentDrop ==
    InLoop =>
        /\ Len(blocks) = stats.parsed_messages
        /\ next_block - 1 = Len(data) + Citations(data) + stats.ignored_lines
        /\ pc = "done" =>
              stats.parsed_messages = Len(data) + Citations(data) + stats.ignored_lines

C7_Witness ==
    /\ pc = "done"
    /\ Len(data) = 1
    /\ Citations(data) = 1
    /\ stats.ignored_lines = 1

\* C8 as stated: a record receives at most one quoted-continuation append.
C8_AtMostOneAppend ==
    \A k \in 1..Len(data) : CitationCount(data[k].message) <= 1

\* C8 amended: a record in the output is changed only by folds, and only while
\* it is the last record: each fold appends one citation to its body (the
\* first fold of the transcript also sets its flag); it may receive several
\* such appends; its timestamp and sender, and every record before the last,
\* never change.
C8_OnlyFoldsMutateLast ==
    [][\A k \in 1..Len(data) :
        /\ k <= Len(data')
        /\ data'[k].datetime = data[k].datetime
        /\ data'[k].sender = data[k].sender
        /\ IsPrefix(data[k].message, data'[k].message)
        /\ data[k].quoted_message => data'[k].quoted_message
        /\ k < Len(data) => data'[k] = data[k]
        /\ data'[k] # data[k] =>
              /\ FoldCase
              /\ Len(data') = Len(data)
              /\ CitationCount(data'[k].message) = CitationCount(data[k].message) + 1]_vars

C8_Witness ==
    /\ pc = "done"
    /\ \E k \in 1..Len(data) : CitationCount(data[k].message) = 2

\* C9: a full-form block (with a valid date) always yields a new record with
\* quoted_message false, at its own timestamp, which becomes last_datetime;
\* it changes no counter (inferred_dates included) and never folds, also when
\* its timestamp is earlier than last_datetime.
C9_FullFormPrimacy ==
    [][FullCase =>
        LET t == full_datetime(FULL_PATTERN(CurBlock), date_format).dt
        IN  /\ pc' = "blocks"
            /\ data' = Append(data, data'[Len(data')])
            /\ data'[Len(data')].quoted_message = FALSE
            /\ data'[Len(data')].datetime = t
            /\ last_datetime' = Some(t)
            /\ stats' = stats
            /\ first_quote' = first_quote]_vars

C9_Witness ==
    /\ pc = "done"
    /\ detect_quoted
    /\ Len(data) = 2
    /\ DtLess(data[2].datetime, data[1].datetime)
    /\ last_datetime = Some(data[2].datetime)
    /\ ~data[1].quoted_message /\ ~data[2].quoted_message

\* C10: a short-form block that has an anchor and does not meet the fold
\* condition yields a new record whose year is the year of last_datetime,
\* whose day, month, hour and minute are the block's under the standing date
\* ordering and whose seconds are zero; inferred_dates increases by exactly 1
\* and last_datetime becomes the record's timestamp.
C10_YearInheritance ==
    [][InheritCase =>
        LET m == SHORT_PATTERN(CurBlock)
            new == data'[Len(data')]
        IN  /\ pc' = "blocks"
            /\ data' = Append(data, new)
            /\ new.datetime.year = last_datetime[1].year
            /\ new.datetime.day =
                  (IF date_format = DDMM THEN m.date[1].n ELSE m.date[2].n)
            /\ new.datetime.month =
                  (IF date_format = DDMM THEN m.date[2].n ELSE m.date[1].n)
            /\ new.datetime.hour = m.hour[1].n
            /\ new.datetime.minute = m.hour[2].n
            /\ new.datetime.second = 0
            /\ ~new.quoted_message
            /\ stats' = [stats EXCEPT !.inferred_dates = @ + 1]
            /\ last_datetime' = Some(new.datetime)]_vars

C10_Witness ==
    /\ pc = "done"
    /\ Len(data) = 3
    /\ data[1].datetime.year = 2023
    /\ data[2].datetime.year = 2022
    /\ data[3].datetime.year = 2022
    /\ data[3].datetime.second = 0
    /\ stats.inferred_dates = 1

\* C11: a fold changes only the body of the last record and the first-fold
\* bookkeeping (the flag of that record, first_quote, quoted_messages and
\* multiline_messages): last_datetime is not advanced, the timestamp and
\* sender of the last record, every earlier record and the number of records
\* are unchanged, inferred_dates, ignored_lines and the segmenter's counters
\* are unchanged, and the citation is appended to the body of the last record,
\* the one most recently appended (whose timestamp last_datetime holds).
C11_FoldFrame ==
    [][FoldCase =>
        LET n == Len(data)
        IN  /\ n > 0
            /\ last_datetime = Some(data[n].datetime)
            /\ last_datetime' = last_datetime
            /\ Len(data') = n
            /\ \A k \in 1..(n - 1) : data'[k] = data[k]
            /\ data'[n].datetime = data[n].datetime
            /\ data'[n].sender = data[n].sender
            /\ IsPrefix(data[n].message \o <<LF, Tok("[")>>, data'[n].message)
            /\ stats'.inferred_dates = stats.inferred_dates
            /\ stats'.ignored_lines = stats.ignored_lines
            /\ stats'.total_lines = stats.total_lines
            /\ stats'.parsed_messages = stats.parsed_messages
            /\ date_format' = date_format
            /\ UNCHANGED <<seg_vars, arg_vars>>]_vars

C11_Witness ==
    /\ pc = "blocks"
    /\ next_block = 4
    /\ Len(data) = 2
    /\ CitationCount(data[1].message) = 0
    /\ CitationCount(data[2].message) = 1
    /\ last_datetime = Some(data[2].datetime)
    /\ stats.inferred_dates = 0
    /\ stats.ignored_lines = 0

\* C12: a block that matches neither grammar, and a short-form block that
\* comes before any record, is ignored and the parse goes on: ignored_lines
\* increases by exactly 1, no other counter changes, no record is added or
\* changed, last_datetime is unchanged and the loop moves to the next block.
C12_RecoverableIgnore ==
    [][IgnoreCase =>
        /\ pc' = "blocks"
        /\ next_block' = next_block + 1
        /\ stats' = [stats EXCEPT !.ignored_lines = @ + 1]
        /\ data' = data
        /\ last_datetime' = last_datetime
        /\ first_quote' = first_quote]_vars

C12_Witness ==
    /\ pc = "done"
    /\ Len(blocks) = 3
    /\ IsShortBlock(blocks[1])
    /\ IsFullBlock(blocks[2])
    /\ ~IsFullBlock(blocks[3]) /\ ~IsShortBlock(blocks[3])
    /\ stats.ignored_lines = 2
    /\ Len(data) = 1
    /\ last_datetime = Some(data[1].datetime)

\* C13: parse_chat aborts exactly when it processes a block that matches the
\* full or the short grammar (with an anchor) whose numbers are not a valid
\* date and time under date_format, the year being the inherited one for the
\* short form; it then raises ValueError, returns nothing (no step follows),
\* and nothing else (grammar mismatch, missing anchor, fold, empty input)
\* aborts it: in particular data[-1] of a fold never raises IndexError.
C13_OnlyInvalidDatesAbort ==
    /\ [] (pc # "IndexError")
    /\ [][/\ InvalidCase => pc' = "ValueError"
          /\ Aborted' => (InvalidCase /\ pc' = "ValueError")
          /\ ~Aborted]_vars

C13_Witness ==
    /\ pc = "ValueError"
    /\ next_block = 2
    /\ IsShortBlock(CurBlock)
    /\ Len(data) = 1
    /\ stats.inferred_dates = 0

\* C14: infer_date_format returns the ordering under which more of the
\* full-form blocks among the first sample_size blocks have a valid calendar
\* date: month-first when it has strictly more, day-first when day-first has
\* more, when the two numbers are equal, and when none of the sampled blocks
\* matches the full grammar.
C14_MajorityOrdering ==
    Inferred =>
        LET K == FirstBlocks(call.blocks, call.sample_size)
            dd == ValidDates(call.blocks, K, DDMM)
            mm == ValidDates(call.blocks, K, MMDD)
        IN  /\ mm > dd => call.result = Some(MMDD)
            /\ dd > mm => call.result = Some(DDMM)
            /\ dd = mm => call.result = Some(DDMM)
            /\ (\A k \in K : ~IsFullBlock(call.blocks[k])) => call.result = Some(DDMM)

C14_Witness ==
    /\ Inferred
    /\ call.result = Some(MMDD)
    /\ call.sample_size = 3
    /\ Len(call.blocks) = 3
    /\ ValidDates(call.blocks, 1..3, DDMM) = 1
    /\ ValidDates(call.blocks, 1..3, MMDD) = 2

\* C15 as stated: the sample is the first sample_size blocks that match the
\* full grammar, whatever number of other blocks precede them: the result is
\* the majority ordering of the first sample_size full-form blocks.
C15_SampleOfFullBlocks ==
    Inferred =>
        call.result =
            Some(MajorityOrdering(call.blocks,
                                  FirstFullBlocks(call.blocks, call.sample_size)))

C17_SuppliedOrderingWins ==
    pc \in {"blocks", "done", "ValueError"} =>
        date_format =
            (IF Supplied THEN import_config[1].date_format[1]
             ELSE MajorityOrdering(blocks, FirstBlocks(blocks, sample_size)))

C17_Witness ==
    /\ pc = "done"
    /\ Supplied
    /\ date_format = MMDD
    /\ MajorityOrdering(blocks, FirstBlocks(blocks, sample_size)) = DDMM
    /\ Len(data) = 1
    /\ data[1].datetime.month = 5 /\ data[1].datetime.day = 11

\* C18: inferred_dates is the number of records made from short-form blocks
\* by inheriting the year: it increases by 1 at each such block and at no
\* other block, so at every point of the loop, and at the end, it is the
\* number of records minus the number of full-form blocks processed.
C18_State ==
    InLoop =>
        stats.inferred_dates =
            Len(data) - Cardinality({k \in 1..(next_block - 1) : IsFullBlock(blocks[k])})

C18_Step ==
    AtBlock =>
        stats'.inferred_dates =
            stats.inferred_dates + (IF InheritCase /\ ~Aborted' THEN 1 ELSE 0)

C18_InferredDates == [] C18_State /\ [][C18_Step]_vars

C18_Witness ==
    /\ pc = "done"
    /\ ~detect_quoted
    /\ Len(data) = 3
    /\ IsShortBlock(blocks[2]) /\ IsShortBlock(blocks[3])
    /\ stats.inferred_dates = 2

\* C19: a transcript with no full-form block never aborts and always has a
\* next step until parse_chat returns, with no record, inferred_dates = 0 and
\* quoted_messages = 0; whenever parse_chat returns no record these two
\* counters are 0; for zero lines all six counters are 0.
C19_EmptyInputIsNoError ==
    /\ (Segmented /\ \A b \in 1..Len(blocks) : ~IsFullBlock(blocks[b])) =>
          /\ ~Aborted
          /\ pc # "done" => ENABLED Next
          /\ InLoop => (data = <<>> /\ last_datetime = None
                            /\ stats.inferred_dates = 0 /\ stats.quoted_messages = 0)
    /\ (pc = "done" /\ data = <<>>) =>
          (stats.inferred_dates = 0 /\ stats.quoted_messages = 0)
    /\ (pc = "done" /\ lines = <<>>) => (data = <<>> /\ stats = NoStats)

C19_Witness ==
    /\ pc = "done"
    /\ Len(lines) = 3
    /\ data = <<>>
    /\ stats.parsed_messages = 2
    /\ IsShortBlock(blocks[1])
    /\ stats.ignored_lines = 2
    /\ stats.inferred_dates = 0

\* C20: clean_line is idempotent: applied to its own result it returns that
\* result, for lines with and without marks, and for lines where a mark
\* follows the trailing newline.
C20_Idempotent ==
    call.fn = "clean_line" => clean_line(call.result[1]) = call.result[1]

C20_Witness ==
    /\ call.fn = "clean_line"
    /\ call.line = <<Tok("a"), LF, LRM>>
    /\ call.result = Some(<<Tok("a")>>)

\* C21 as stated: the result of clean_line holds no byte-order mark, no
\* left-to-right mark and no right-to-left mark, and does not end with a line
\* terminator, carriage return or line feed.
C21_NoMarkNoTerminator ==
    call.fn = "clean_line" =>
        LET cleaned == call.result[1]
        IN  /\ \A k \in 1..Len(cleaned) : cleaned[k] \notin {BOM, LRM, RLM}
            /\ cleaned # <<>> => cleaned[Len(cleaned)] \notin {LF, CR}

\* C22: every counter starts at 0 (the three counters of the segmenter before
\* the first line, the three counters of the block loop before the first
\* block, where the other three hold the segmenter's values) and no step of a
\* parse decreases any of the six counters.
C22_Start ==
    /\ (pc = "segment" /\ lines = <<>>) =>
          (segment_stats.total_lines = 0 /\ segment_stats.parsed_messages = 0
             /\ segment_stats.multiline_messages = 0 /\ stats = NoStats)
    /\ (pc = "blocks" /\ next_block = 1) =>
          /\ stats.inferred_dates = 0 /\ stats.ignored_lines = 0
          /\ stats.quoted_messages = 0
          /\ stats.total_lines = segment_stats.total_lines
          /\ stats.parsed_messages = segment_stats.parsed_messages
          /\ stats.multiline_messages = segment_stats.multiline_messages

C22_Step ==
    /\ segment_stats'.total_lines >= segment_stats.total_lines
    /\ segment_stats'.parsed_messages >= segment_stats.parsed_messages
    /\ segment_stats'.multiline_messages >= segment_stats.multiline_messages
    /\ stats'.total_lines >= stats.total_lines
    /\ stats'.parsed_messages >= stats.parsed_messages
    /\ stats'.multiline_messages >= stats.multiline_messages
    /\ stats'.inferred_dates >= stats.inferred_dates
    /\ stats'.ignored_lines >= stats.ignored_lines
    /\ stats'.quoted_messages >= stats.quoted_messages

C22_CountersMonotone == [] C22_Start /\ [][C22_Step]_vars

C22_Witness ==
    /\ pc = "done"
    /\ stats.total_lines = 3
    /\ stats.parsed_messages = 3
    /\ stats.multiline_messages = 1
    /\ stats.inferred_dates = 1
    /\ stats.ignored_lines = 0
    /\ stats.quoted_messages = 1

\* C23: while lines are read, a block is open exactly when a header line has
\* been read, and the emitted blocks plus the open one are as many as the
\* header lines; when the segmenter has returned, the blocks are as many as
\* the header lines (parsed_messages), and the i-th block is the i-th header
\* line followed by all the lines up to the next header line (none of them a
\* header line), in input order, joined by newlines.
C23_Segmenter ==
    /\ pc = "segment" =>
          /\ (current # <<>>) <=> (HeaderLines # {})
          /\ Len(blocks) + (IF current # <<>> THEN 1 ELSE 0) = Cardinality(HeaderLines)
    /\ Segmented =>
          /\ Len(blocks) = Cardinality(HeaderLines)
          /\ Len(blocks) = segment_stats.parsed_messages
          /\ \A i \in 1..Len(blocks) :
                /\ IsHeader(lines[NthHeader(i)])
                /\ \A k \in (NthHeader(i) + 1)..LastLineOf(i) : ~IsHeader(lines[k])
                /\ blocks[i] = JoinedLines(NthHeader(i), LastLineOf(i))

C23_Witness ==
    /\ pc = "config"
    /\ Len(lines) = 3
    /\ Len(blocks) = 2
    /\ IsHeader(lines[1]) /\ ~IsHeader(lines[2]) /\ IsHeader(lines[3])
    /\ blocks[1] = clean_line(lines[1]) \o <<LF>> \o clean_line(lines[2])
    /\ blocks[2] = clean_line(lines[3])

\* C24 as stated: the block of a header line that, taken alone, matches
\* neither grammar produces no record and adds exactly 1 to ignored_lines.
C24_JunkHeaderIgnored ==
    [][(AtBlock /\ JunkHeader(next_block)) =>
        /\ pc' = "blocks"
        /\ data' = data
        /\ stats' = [stats EXCEPT !.ignored_lines = @ + 1]]_vars

\* C24 amended: every header line, whether or not it matches a grammar, starts
\* a block of its own that is counted in parsed_messages and absorbs the
\* non-header lines after it; the grammars are matched against the whole
\* block, and when the block matches neither, it produces no record and adds
\* exactly 1 to ignored_lines, however many lines it absorbed.  (A header line
\* without ": " can match through an absorbed line that has one, and then
\* yields a record.)
C24_State ==
    Segmented =>
        /\ Len(blocks) = segment_stats.parsed_messages
        /\ \A i \in 1..Len(blocks) :
              /\ IsPrefix(clean_line(lines[NthHeader(i)]), blocks[i])
              /\ ContinuationLines(blocks[i]) = LastLineOf(i) - NthHeader(i)

C24_Step ==
    (AtBlock /\ JunkHeader(next_block)) =>
        IF ~IsFullBlock(CurBlock) /\ ~IsShortBlock(CurBlock)
        THEN /\ pc' = "blocks"
             /\ data' = data
             /\ stats' = [stats EXCEPT !.ignored_lines = @ + 1]
        ELSE ContinuationLines(CurBlock) >= 1

C24_StructuralBlocks == [] C24_State /\ [][C24_Step]_vars

C24_Witness ==
    /\ pc = "done"
    /\ Len(lines) = 3
    /\ Len(blocks) = 2
    /\ IsFullBlock(blocks[1])
    /\ JunkHeader(2)
    /\ ContinuationLines(blocks[2]) = 1
    /\ stats.parsed_messages = 2
    /\ stats.ignored_lines = 1
    /\ Len(data) = 1

\* C25: with detect_quoted disabled nothing is ever folded: quoted_messages
\* stays 0, no record is flagged and no body holds a citation; every
\* short-form block with an anchor (and a valid date) becomes a new record at
\* its own timestamp, also when that is earlier than last_datetime, which
\* then moves backwards, and adds 1 to inferred_dates.
C25_State ==
    (~detect_quoted /\ InLoop) =>
        /\ stats.quoted_messages = 0
        /\ Citations(data) = 0
        /\ \A k \in 1..Len(data) : ~data[k].quoted_message

C25_Step ==
    (~detect_quoted /\ AtBlock /\ IsShortBlock(CurBlock) /\ last_datetime # None
        /\ ~InvalidCase) =>
        LET t == short_datetime(SHORT_PATTERN(CurBlock), last_datetime[1], date_format).dt
            new == data'[Len(data')]
        IN  /\ pc' = "blocks"
            /\ data' = Append(data, new)
            /\ new.datetime = t
            /\ ~new.quoted_message
            /\ last_datetime' = Some(t)
            /\ stats' = [stats EXCEPT !.inferred_dates = @ + 1]

C25_NoFoldWhenDisabled == [] C25_State /\ [][C25_Step]_vars

C25_Witness ==
    /\ pc = "done"
    /\ ~detect_quoted
    /\ Len(blocks) = 2
    /\ IsShortBlock(blocks[2])
    /\ Len(data) = 2
    /\ DtLess(data[2].datetime, data[1].datetime)
    /\ last_datetime = Some(data[2].datetime)
    /\ stats.inferred_dates = 1
    /\ stats.quoted_messages = 0

C27_AnchorIsLastRecord ==
    /\ pc # "IndexError"
    /\ pc \in {"blocks", "done", "ValueError"} =>
          /\ (last_datetime = None) <=> (data = <<>>)
          /\ data # <<>> => last_datetime = Some(data[Len(data)].datetime)
    /\ FoldCase => (data # <<>> /\ data[Len(data)].datetime = last_datetime[1])

C27_Witness ==
    /\ pc = "blocks"
    /\ Len(blocks) = 3
    /\ next_block = 3
    /\ FoldCase
    /\ Len(data) = 2
    /\ last_datetime = Some(data[2].datetime)
    /\ stats.inferred_dates = 1

\* The statement without the condition on strptime: every short-form block
\* whose month and day come earlier than those of last_datetime is folded.
\* "[29/02 09:07]" after a record of 2023 is read as 29 February 2023 and
\* raises ValueError instead.
C28_EarlierAlwaysFolds ==
    [][(AtBlock /\ detect_quoted /\ IsShortBlock(CurBlock) /\ last_datetime # None
        /\ LET m == SHORT_PATTERN(CurBlock)
               month == IF date_format = DDMM THEN m.date[2].n ELSE m.date[1].n
               day == IF date_format = DDMM THEN m.date[1].n ELSE m.date[2].n
           IN  \/ month < last_datetime[1].month
               \/ month = last_datetime[1].month /\ day < last_datetime[1].day) =>
        /\ Len(data') = Len(data)
        /\ CitationCount(data'[Len(data)].message) =
              CitationCount(data[Len(data)].message) + 1]_vars

\* C28: the year of last_datetime changes only at a full-form block; and with
\* quote detection enabled a short-form block whose month and day come earlier
\* in the calendar than those of last_datetime, such as a January block after
\* a December record, is folded into the last record and makes no record of
\* the following year, provided its date exists in the year of last_datetime
\* (the step does not raise ValueError).
C28_YearOnlyFromFullForm ==
    [][/\ (AtBlock /\ last_datetime # None /\ last_datetime' # None
            /\ last_datetime'[1].year # last_datetime[1].year) => IsFullBlock(CurBlock)
       /\ (AtBlock /\ detect_quoted /\ IsShortBlock(CurBlock) /\ last_datetime # None
            /\ pc' = "blocks"
            /\ LET m == SHORT_PATTERN(CurBlock)
                   month == IF date_format = DDMM THEN m.date[2].n ELSE m.date[1].n
                   day == IF date_format = DDMM THEN m.date[1].n ELSE m.date[2].n
               IN  \/ month < last_datetime[1].month
                   \/ month = last_datetime[1].month /\ day < last_datetime[1].day) =>
            /\ Len(data') = Len(data)
            /\ last_datetime' = last_datetime
            /\ CitationCount(data'[Len(data)].message) =
                  CitationCount(data[Len(data)].message) + 1]_vars

C28_Witness ==
    /\ pc = "done"
    /\ detect_quoted
    /\ Len(blocks) = 2
    /\ Len(data) = 1
    /\ data[1].datetime.month = 12
    /\ SHORT_PATTERN(blocks[2]).ok
    /\ SHORT_PATTERN(blocks[2]).date[2].n = 1
    /\ CitationCount(data[1].message) = 1
    /\ last_datetime[1].year = 2023

\* C29: a fold appends to the body of the last record a newline and
\* "[dd/mm HH:MM] sender: body", where sender and body are those of the folded
\* block and dd/mm HH:MM is last_datetime, the timestamp of that record (not
\* the block's own time), the day before the month under either ordering.
C29_CitationText ==
    [][FoldCase =>
        LET n == Len(data)
            last == last_datetime[1]
            m == SHORT_PATTERN(CurBlock)
        IN  /\ last = data[n].datetime
            /\ data'[n].message =
                  data[n].message
                    \o <<LF, Tok("["), Num(last.day, 2), Tok("/"), Num(last.month, 2), SP,
                         Num(last.hour, 2), Tok(":"), Num(last.minute, 2), Tok("]"), SP>>
                    \o m.sender \o <<Tok(":"), SP>> \o m.message]_vars

C29_Witness ==
    /\ pc = "done"
    /\ date_format = MMDD
    /\ Len(data) = 1
    /\ data[1].message =
          <<Tok("look"), LF, Tok("["), Num(11, 2), Tok("/"), Num(5, 2), SP,
            Num(9, 2), Tok(":"), Num(5, 2), Tok("]"), SP,
            Tok("Bob"), Tok(":"), SP, Tok("Hi")>>

\* C30: records are appended in the order of their blocks and never removed;
\* the sender and the body of a new record are the text of its block between
\* "] " and the first colon, and the text after that colon and one space up
\* to the end of the block (continuation lines included); afterwards only the
\* body of the record that is last can grow, by appending: every body is a
\* prefix of what it is after the step, senders do not change and records
\* before the last do not change at all.
C30_OrderAndBodies ==
    [][/\ (AtBlock /\ Len(data') # Len(data)) =>
            LET new == data'[Len(data')]
                b == CurBlock
                head == new.sender \o <<Tok(":")>>
            IN  /\ data' = Append(data, new)
                /\ new.sender # <<>>
                /\ \A k \in 1..Len(new.sender) : new.sender[k] # Tok(":")
                /\ \E j \in 1..Len(b) :
                      /\ b[j] = Tok("]")
                      /\ \A i \in 1..(j - 1) : b[i] # Tok("]")
                      /\ j + 2 + Len(head) <= Len(b)
                      /\ IsSpace(b[j + 1])
                      /\ SubSeq(b, j + 2, j + 1 + Len(head)) = head
                      /\ IsSpace(b[j + 2 + Len(head)])
                      /\ new.message = SubSeq(b, j + 3 + Len(head), Len(b))
       /\ Len(data') >= Len(data)
       /\ \A k \in 1..Len(data) :
            /\ IsPrefix(data[k].message, data'[k].message)
            /\ data'[k].sender = data[k].sender
            /\ k < Len(data) => data'[k] = data[k]]_vars

C30_Witness ==
    /\ pc = "done"
    /\ Len(lines) = 3
    /\ Len(data) = 2
    /\ data[1].sender = <<Tok("Ann")>>
    /\ data[1].message = <<Tok("look"), LF, Tok("more")>>
    /\ data[2].sender = <<Tok("Bob")>>
    /\ data[2].message = <<Tok("hello")>>

====
